---- MODULE Spec2Model ----
(***************************************************************************)
(* ResponseWordsTerminator (camel/terminator/response_terminator.py):      *)
(* a stateful termination predicate that counts, over the batches handed   *)
(* to is_terminated, the messages that contain each watched word, and      *)
(* latches "terminated" once the ANY / ALL aggregation of the thresholds   *)
(* is met.                                                                 *)
(*                                                                         *)
(* Strings are sequences of one-character strings.  A dict is the sequence *)
(* of its <<key, value>> items in insertion order, which is the order      *)
(* Python iterates it in.  Optional[x] is <<>> for None and <<x>> else.    *)
(***************************************************************************)
EXTENDS Integers, Sequences, FiniteSets, Bags, TLC

VARIABLES
    pc,                  \* "start": __init__ not yet run; "ready"; "failed"
    words_dict,          \* constructor argument: items <<word, threshold>>
    case_sensitive,      \* constructor argument
    mode,                \* constructor argument
    track,               \* ghost: whether fed is recorded in this behaviour
    _word_count_dict,    \* items <<word, count>>, in insertion order
    _terminated,
    _termination_reason, \* Optional[str]
    ret,                 \* outcome of the last call
    flip,                \* ghost: parity of the number of calls made
    fed,                 \* ghost: bag of the contents counted since reset
    hist                 \* ghost: the is_terminated calls made since reset

vars == <<pc, words_dict, case_sensitive, mode, track, _word_count_dict,
          _terminated, _termination_reason, ret, flip, fed, hist>>

----------------------------------------------------------------------------
(* Bounds of the model. *)

MaxBatch == 2        \* messages in one is_terminated call
MaxThreshold == 2    \* largest threshold of a watch specification
MaxCount == 3        \* largest value a running counter is let to reach
MaxFed == 3          \* messages recorded in fed, where it is recorded
MaxCalls == 3        \* is_terminated calls recorded in hist, where it is

(* The inputs: watch words and message contents over a and b, in both    *)
(* cases, with a content that holds a word twice and one that holds it   *)
(* after another letter.                                                 *)
Words == { <<"a">>, <<"A">>, <<"a", "A">> }

Contents == { <<>>, <<"A">>, <<"a", "a">>, <<"b", "a", "A">> }

Thresholds == (0 - 1) .. MaxThreshold

Modes == { "ANY", "ALL", "OTHER" }

----------------------------------------------------------------------------
(* Python values. *)

None == <<>>

Some(x) == <<x>>

\* str.lower() on the alphabet
LowerChar(c) ==
    CASE c = "A" -> "a"
      [] c = "B" -> "b"
      [] OTHER -> c

lower(s) == [i \in DOMAIN s |-> LowerChar(s[i])]

\* sub in s
Contains(sub, s) ==
    \E i \in 0 .. (Len(s) - Len(sub)) : SubSeq(s, i + 1, i + Len(sub)) = sub

\* number of (possibly overlapping) places where sub occurs in s
Occurrences(sub, s) ==
    Cardinality({ i \in 0 .. (Len(s) - Len(sub)) :
                    SubSeq(s, i + 1, i + Len(sub)) = sub })

Digits == <<"0", "1", "2", "3", "4", "5", "6", "7", "8", "9">>

RECURSIVE str(_)
\* str(n) of an int
str(n) ==
    IF n < 0 THEN <<"-">> \o str(0 - n)
    ELSE IF n < 10 THEN <<Digits[n + 1]>>
    ELSE str(n \div 10) \o <<Digits[(n % 10) + 1]>>

RECURSIVE join(_, _)
\* sep.join(strs)
join(sep, strs) ==
    IF strs = <<>> THEN <<>>
    ELSE IF Len(strs) = 1 THEN strs[1]
    ELSE strs[1] \o sep \o join(sep, Tail(strs))

\* dict: keys in order, lookup, and d[k] += n on a defaultdict(int)
Keys(d) == [i \in DOMAIN d |-> d[i][1]]

HasKey(d, k) == \E i \in DOMAIN d : d[i][1] = k

Get(d, k) == d[CHOOSE i \in DOMAIN d : d[i][1] = k][2]

GetDefault(d, k) == IF HasKey(d, k) THEN Get(d, k) ELSE 0

AddTo_Overwrite(d, k, n) ==
    IF HasKey(d, k)
    THEN [i \in DOMAIN d |-> IF d[i][1] = k THEN <<k, n>> ELSE d[i]]
    ELSE Append(d, <<k, n>>)

AddTo(d, k, n) ==
    IF HasKey(d, k)
    THEN [i \in DOMAIN d |-> IF d[i][1] = k THEN <<k, d[i][2] + n>> ELSE d[i]]
    ELSE Append(d, <<k, n>>)

Message(content) == [content |-> content]

----------------------------------------------------------------------------
(* Outcomes of a call. *)

\* at: the source line the call left the method at
Returned(op, value, at) ==
    [op |-> op, kind |-> "return", value |-> value, at |-> at]

Raised(op, message, at) ==
    [op |-> op, kind |-> "ValueError", value |-> message, at |-> at]

NotCalled == [op |-> "", kind |-> "", value |-> <<>>, at |-> 0]

----------------------------------------------------------------------------
(* ResponseTerminator.__init__ of camel/terminator/base.py *)
BaseInit == [terminated |-> FALSE, reason |-> None]

(* _validate *)
\* the character that opens and closes a name in the messages
Tick == "(backtick)"

EmptyError == <<Tick, "words_dict", Tick, " cannot be empty">>

ThresholdError(word, threshold) ==
    <<"Threshold for word ", Tick>> \o word
        \o <<Tick, " should be larger than 0, got ", Tick>>
        \o str(threshold) \o <<Tick>>

BadThreshold_Strict(threshold) == threshold < 0

BadThreshold(threshold) == threshold <= 0

NoError == [message |-> <<>>, at |-> 0]

RECURSIVE ValidateItems(_)
ValidateItems(items) ==
    IF items = <<>> THEN NoError
    ELSE IF BadThreshold(Head(items)[2])
         THEN [message |-> ThresholdError(Head(items)[1], Head(items)[2]),
               at |-> 41]
         ELSE ValidateItems(Tail(items))

\* NoError, or the message of the ValueError raised and the line raising it
Validate(wd) ==
    IF Len(wd) = 0 THEN [message |-> EmptyError, at |-> 37]
    ELSE ValidateItems(wd)

(* is_terminated, the counting loops *)
SpecialWord(word, cs) == IF cs THEN word ELSE lower(word)

Content_Raw(message, cs) == message.content

Content(message, cs) == IF cs THEN message.content ELSE lower(message.content)

Bump_PerOccurrence(special_word, content) == Occurrences(special_word, content)

\* what one message adds to the counter of word
Bump(special_word, content) == IF Contains(special_word, content) THEN 1 ELSE 0

\* a scan that counts each call's batch from zero
ScanMessages_Restart(counts, word, messages, cs) ==
    LET n == Cardinality({ k \in DOMAIN messages :
                             Bump(SpecialWord(word, cs),
                                  Content(messages[k], cs)) > 0 })
    IN  IF n > 0 THEN AddTo_Overwrite(counts, word, n) ELSE counts

RECURSIVE ScanMessages(_, _, _, _)
ScanMessages(counts, word, messages, cs) ==
    IF messages = <<>> THEN counts
    ELSE LET n == Bump(SpecialWord(word, cs), Content(Head(messages), cs))
         IN  ScanMessages(IF n > 0 THEN AddTo(counts, word, n) ELSE counts,
                          word, Tail(messages), cs)

RECURSIVE ScanWords(_, _, _, _)
ScanWords(counts, words, messages, cs) ==
    IF words = <<>> THEN counts
    ELSE ScanWords(ScanMessages(counts, Head(words), messages, cs),
                   Tail(words), messages, cs)

(* is_terminated, the evaluation *)
ReasonLine(word, value, threshold) ==
    <<"Word ", Tick>> \o word \o <<Tick, " appears ">> \o str(value)
        \o <<" times in response which has reached termination threshold ">>
        \o str(threshold) \o <<".">>

IsReached_OneShort(value, threshold) == value >= threshold - 1

IsReached_Strict(value, threshold) == value > threshold

IsReached(value, threshold) == value >= threshold

RECURSIVE Evaluate(_, _)
\* [num_reached, reasons] over the items of the counter dict
Evaluate(items, wd) ==
    IF items = <<>> THEN [num_reached |-> 0, reasons |-> <<>>]
    ELSE LET word == Head(items)[1]
             value == Head(items)[2]
             rest == Evaluate(Tail(items), wd)
         IN  IF IsReached(value, Get(wd, word))
             THEN [num_reached |-> rest.num_reached + 1,
                   reasons |-> <<ReasonLine(word, value, Get(wd, word))>>
                                   \o rest.reasons]
             ELSE rest

AnyMet_Always(num_reached) == num_reached >= 0

AnyMet(num_reached) == num_reached > 0

AllMet_AsAny(num_reached, wd) == num_reached > 0

AllMet_Always(num_reached, wd) == num_reached >= 0

AllMet(num_reached, wd) == num_reached >= Len(wd)

Dispatch_ElseAll(m) == IF m = "ANY" THEN "ANY" ELSE "ALL"

\* the branch of the if / elif / else on self.mode
Dispatch(m) ==
    CASE m = "ANY" -> "ANY"
      [] m = "ALL" -> "ALL"
      [] OTHER -> "raise"

ShortCircuit_Off(terminated) == FALSE

\* the test that returns the cached pair without scanning
ShortCircuit(terminated) == terminated

UnsupportedError(m) == <<"Unsupported termination mode ", Tick, m, Tick>>

----------------------------------------------------------------------------
(* The fields of an instance right after the assignments of __init__ *)
FreshInstance ==
    [_terminated |-> BaseInit.terminated,
     _termination_reason |-> BaseInit.reason,
     _word_count_dict |-> <<>>]

Config == <<pc, words_dict, case_sensitive, mode, track>>

__init__ ==
    /\ pc = "start"
    /\ _terminated' = FreshInstance._terminated
    /\ _termination_reason' = FreshInstance._termination_reason
    /\ _word_count_dict' = FreshInstance._word_count_dict
    /\ LET err == Validate(words_dict)
       IN  IF err = NoError
           THEN pc' = "ready" /\ ret' = Returned("__init__", None, 33)
           ELSE pc' = "failed" /\ ret' = Raised("__init__", err.message, err.at)
    /\ fed' = EmptyBag
    /\ flip' = ~flip
    /\ UNCHANGED <<words_dict, case_sensitive, mode, track, hist>>

RECURSIVE BagOfContents(_)
BagOfContents(messages) ==
    IF messages = <<>> THEN EmptyBag
    ELSE SetToBag({Head(messages).content}) (+) BagOfContents(Tail(messages))

\* containment as the case_sensitive flag asks for it, letter by letter
SameLetter(x, y, cs) ==
    \/ x = y
    \/ ~cs /\ \E pair \in { {"a", "A"}, {"b", "B"} } : {x, y} = pair

Matches(word, content) ==
    \E off \in 0 .. (Len(content) - Len(word)) :
        \A k \in 1 .. Len(word) :
            SameLetter(word[k], content[off + k], case_sensitive)

\* hist, where it is kept: the contents passed in all the calls since
\* construction or reset, the number of those calls, and the watched words
\* (by position) that every one of those calls held in some message
NoCalls(on) ==
    [on |-> on, passed |-> EmptyBag, calls |-> 0,
     always |-> IF on THEN DOMAIN words_dict ELSE {}]

Recorded(messages) ==
    IF hist.on
    THEN [on |-> TRUE,
          passed |-> hist.passed (+) BagOfContents(messages),
          calls |-> hist.calls + 1,
          always |-> { i \in hist.always :
                         \E k \in DOMAIN messages :
                             Matches(words_dict[i][1], messages[k].content) }]
    ELSE hist

\* the model's caps on what hist records
HistWithinBounds(messages) ==
    hist.on => /\ hist.calls < MaxCalls
               /\ BagCardinality(hist.passed) + Len(messages) <= MaxFed

\* the model's caps on the counters and on the record of what was fed
WithinBounds(counts, messages) ==
    /\ \A i \in DOMAIN counts : counts[i][2] <= MaxCount
    /\ track => BagCardinality(fed) + Len(messages) <= MaxFed

Aggregate_FirstReason(ev, met, branch) ==
    [terminated |-> IF met THEN TRUE ELSE _terminated,
     reason |-> IF met THEN Some(ev.reasons[1]) ELSE _termination_reason,
     raises |-> branch = "raise"]

\* the if / elif / else on self.mode: the latch and what the call yields
Aggregate(ev, met, branch) ==
    [terminated |-> IF met THEN TRUE ELSE _terminated,
     reason |-> IF met THEN Some(join(<<"\n">>, ev.reasons))
                ELSE _termination_reason,
     raises |-> branch = "raise"]

Decide(ev, branch) ==
    Aggregate(ev,
              CASE branch = "ANY" -> AnyMet(ev.num_reached)
                [] branch = "ALL" -> AllMet(ev.num_reached, words_dict)
                [] OTHER -> FALSE,
              branch)

Scanned_RollBack(counts) ==
    [counts |-> IF Dispatch(mode) = "raise" THEN _word_count_dict ELSE counts,
     out |-> Decide(Evaluate(counts, words_dict), Dispatch(mode))]

\* the counter dict after the scan, and the outcome of the evaluation of it
Scanned(counts) ==
    [counts |-> counts,
     out |-> Decide(Evaluate(counts, words_dict), Dispatch(mode))]

is_terminated(messages) ==
    /\ pc = "ready"
    /\ HistWithinBounds(messages)
    /\ hist' = Recorded(messages)
    /\ IF ShortCircuit(_terminated)
       THEN /\ ret' = Returned("is_terminated",
                                 <<TRUE, _termination_reason>>, 57)
            /\ UNCHANGED <<_word_count_dict, _terminated, _termination_reason, fed>>
       ELSE \E s \in { Scanned(ScanWords(_word_count_dict, Keys(words_dict),
                                         messages, case_sensitive)) } :
                /\ WithinBounds(s.counts, messages)
                /\ _word_count_dict' = s.counts
                /\ fed' = IF track THEN fed (+) BagOfContents(messages) ELSE fed
                /\ _terminated' = s.out.terminated
                /\ _termination_reason' = s.out.reason
                /\ ret' = IF s.out.raises
                          THEN Raised("is_terminated",
                                      UnsupportedError(mode), 87)
                          ELSE Returned("is_terminated",
                                        <<s.out.terminated, s.out.reason>>, 88)
    /\ flip' = ~flip
    /\ UNCHANGED Config

Cleared_KeepCounts ==
    [_terminated |-> FALSE, _termination_reason |-> None,
     _word_count_dict |-> _word_count_dict]

Cleared_KeepReason ==
    [_terminated |-> FALSE, _termination_reason |-> _termination_reason,
     _word_count_dict |-> <<>>]

Cleared_KeepLatch ==
    [_terminated |-> _terminated, _termination_reason |-> _termination_reason,
     _word_count_dict |-> <<>>]

\* what reset assigns
Cleared ==
    [_terminated |-> FALSE, _termination_reason |-> None,
     _word_count_dict |-> <<>>]

reset ==
    /\ pc = "ready"
    /\ _terminated' = Cleared._terminated
    /\ _termination_reason' = Cleared._termination_reason
    /\ _word_count_dict' = Cleared._word_count_dict
    /\ ret' = Returned("reset", None, 93)
    /\ fed' = EmptyBag
    /\ hist' = NoCalls(hist.on)
    /\ flip' = ~flip
    /\ UNCHANGED Config

----------------------------------------------------------------------------
(* The arguments the constructor is called with. *)

Items == Words \X Thresholds

WordsDicts ==
    { <<>> } \cup { <<e>> : e \in Items }
        \cup { <<p[1], p[2]>> : p \in { q \in Items \X Items : q[1][1] # q[2][1] } }

\* the watch specifications of the behaviours that record what was fed
WordsDictsHist ==
    { wd \in WordsDicts :
        \/ \E i \in DOMAIN wd : wd[i][2] <= 0
        \/ \A i \in DOMAIN wd : wd[i][2] = MaxThreshold }

RECURSIVE SeqsUpTo(_, _)
SeqsUpTo(S, n) ==
    IF n = 0 THEN { <<>> }
    ELSE LET shorter == SeqsUpTo(S, n - 1)
         IN  shorter \cup { Append(s, x) : s \in shorter, x \in S }

Batches == SeqsUpTo({ Message(c) : c \in Contents }, MaxBatch)

\* the fields of an object whose __init__ has not run hold nothing the
\* program may rely on
Unconstructed ==
    /\ pc = "start"
    /\ _terminated \in BOOLEAN
    /\ _termination_reason = None
    /\ _word_count_dict \in { <<>>, << <<<<"a">>, 1>> >> }
    /\ ret = NotCalled
    /\ flip = FALSE
    /\ fed = EmptyBag

Init ==
    /\ words_dict \in WordsDicts
    /\ case_sensitive \in BOOLEAN
    /\ mode \in Modes
    /\ track = FALSE
    /\ hist = NoCalls(FALSE)
    /\ Unconstructed

InitHist ==
    /\ words_dict \in WordsDictsHist
    /\ case_sensitive \in BOOLEAN
    /\ mode \in Modes
    /\ track = TRUE
    /\ hist = NoCalls(FALSE)
    /\ Unconstructed

\* the watch specifications of the behaviours that record the calls
WordsDictsCalls ==
    { wd \in WordsDicts : Len(wd) > 0 /\ wd[1][1] = <<"a">> }

InitCalls ==
    /\ words_dict \in WordsDictsCalls
    /\ case_sensitive \in BOOLEAN
    /\ mode \in Modes
    /\ track = FALSE
    /\ hist = NoCalls(TRUE)
    /\ Unconstructed

Next ==
    \/ __init__
    \/ \E messages \in Batches : is_terminated(messages)
    \/ reset

Spec == Init /\ [][Next]_vars

\* the same program, with the ghost record of the fed contents kept
SpecHist == InitHist /\ [][Next]_vars

\* the same program, with the ghost record of the calls kept
SpecCalls == InitCalls /\ [][Next]_vars

----------------------------------------------------------------------------
(* Vocabulary of the properties. *)

\* the step is a call of op
Calls(op) == flip' # flip /\ ret'.op = op

\* the last call was is_terminated and it returned the pair <<t, reason>>
ReturnedTerminated(t) ==
    /\ ret.op = "is_terminated"
    /\ ret.kind = "return"
    /\ ret.value[1] = t

Reaches(counts, i) == GetDefault(counts, words_dict[i][1]) >= words_dict[i][2]

AnyCondition(counts) == \E i \in DOMAIN words_dict : Reaches(counts, i)

AllCondition(counts) == \A i \in DOMAIN words_dict : Reaches(counts, i)

AggregationCondition(counts) ==
    CASE mode = "ANY" -> AnyCondition(counts)
      [] mode = "ALL" -> AllCondition(counts)
      [] OTHER -> FALSE

Instance ==
    [_terminated |-> _terminated,
     _termination_reason |-> _termination_reason,
     _word_count_dict |-> _word_count_dict]

\* the messages of the step's batch whose content is c (where fed is kept)
FedNow(c) == CopiesIn(c, fed') - CopiesIn(c, fed)

RECURSIVE SumOver(_, _, _)
\* the sum of n[c] over the contents c of S that match word
SumOver(S, word, n) ==
    IF S = {} THEN 0
    ELSE LET c == CHOOSE x \in S : TRUE
         IN  (IF Matches(word, c) THEN n[c] ELSE 0)
                 + SumOver(S \ {c}, word, n)

----------------------------------------------------------------------------
(* C1. Idempotent latch: once an is_terminated call has returned (true, r), *)
(* every later is_terminated call before a reset returns (true, r) again   *)
(* and leaves the running counters as they were.                           *)
C1_IdempotentLatch ==
    [][ (pc = "ready" /\ ReturnedTerminated(TRUE) /\ Calls("is_terminated"))
        => /\ ret'.kind = "return"
           /\ ret'.value = ret.value
           /\ _word_count_dict' = _word_count_dict ]_vars

\* a call has returned the cached pair of a latched instance
C1_Witness ==
    /\ pc = "ready"
    /\ ReturnedTerminated(TRUE)
    /\ ret.at = 57
    /\ Len(_word_count_dict) > 0

(* C2. ANY mode: a call on a not yet terminated instance returns           *)
(* terminated = true exactly when, after the batch is counted, some        *)
(* watched word's counter has reached its threshold.                       *)
C2_AnyMode ==
    [][ (pc = "ready" /\ mode = "ANY" /\ ~_terminated /\ Calls("is_terminated"))
        => /\ ret'.kind = "return"
           /\ ret'.value[1] = AnyCondition(_word_count_dict')
           /\ _terminated' = ret'.value[1] ]_vars

\* {a: 2}: the call that brings the counter of a to 2 has returned true
C2_Witness ==
    /\ pc = "ready"
    /\ mode = "ANY"
    /\ words_dict = << <<<<"a">>, 2>> >>
    /\ _word_count_dict = << <<<<"a">>, 2>> >>
    /\ ReturnedTerminated(TRUE)
    /\ ret.at = 88

(* C3. ALL mode: a call on a not yet terminated instance returns           *)
(* terminated = true exactly when, after the batch is counted, every       *)
(* watched word's counter has reached its threshold; one word below its    *)
(* threshold keeps the instance active however large the others are.       *)
C3_AllMode ==
    [][ (pc = "ready" /\ mode = "ALL" /\ ~_terminated /\ Calls("is_terminated"))
        => /\ ret'.kind = "return"
           /\ ret'.value[1] = AllCondition(_word_count_dict')
           /\ _terminated' = ret'.value[1] ]_vars

\* two watched words, one counted beyond its threshold, the other short of
\* it: the call returned false
C3_Witness ==
    /\ pc = "ready"
    /\ mode = "ALL"
    /\ Len(words_dict) = 2
    /\ \E i \in DOMAIN words_dict :
           GetDefault(_word_count_dict, words_dict[i][1]) > words_dict[i][2]
    /\ \E i \in DOMAIN words_dict : ~Reaches(_word_count_dict, i)
    /\ ReturnedTerminated(FALSE)

(* C7. The latch has two transitions only: from active to terminated       *)
(* inside an is_terminated call whose aggregation condition is met, and    *)
(* from terminated to active by reset; is_terminated never clears it.      *)
C7_LatchTransitions ==
    [][ pc = "ready"
        => /\ (~_terminated /\ _terminated')
               => (Calls("is_terminated")
                   /\ AggregationCondition(_word_count_dict'))
           /\ (_terminated /\ ~_terminated') => Calls("reset")
           /\ (_terminated /\ Calls("is_terminated")) => _terminated' ]_vars

\* an is_terminated call has just latched the instance
C7_Witness ==
    /\ pc = "ready"
    /\ _terminated
    /\ ret.op = "is_terminated"
    /\ ret.at = 88

(* C4. Per-message counting: one is_terminated call on a not yet           *)
(* terminated instance adds to each watched word's counter the number of   *)
(* messages of the batch that contain the word: 1 for such a message,      *)
(* however often the word occurs in it, and 0 for any other message.       *)
C4_PerMessageCounting ==
    [][ (pc = "ready" /\ track /\ ~_terminated /\ Calls("is_terminated"))
        => \A i \in DOMAIN words_dict :
               GetDefault(_word_count_dict', words_dict[i][1])
                   = GetDefault(_word_count_dict, words_dict[i][1])
                       + SumOver(Contents, words_dict[i][1],
                                 [c \in Contents |-> FedNow(c)]) ]_vars

\* one message that holds the word a twice was fed: the counter of a is 1
C4_Witness ==
    /\ pc = "ready"
    /\ track
    /\ case_sensitive
    /\ fed = SetToBag({ <<"a", "a">> })
    /\ GetDefault(_word_count_dict, <<"a">>) = 1

(* C5. Counters are cumulative: each watched word's counter is the number  *)
(* of matching messages over all the batches counted since construction    *)
(* or the last reset, 0 for a word never seen; a content passed twice is   *)
(* counted twice.                                                          *)
C5_CumulativeCounters ==
    (pc = "ready" /\ track)
        => \A i \in DOMAIN words_dict :
               GetDefault(_word_count_dict, words_dict[i][1])
                   = SumOver(BagToSet(fed), words_dict[i][1], fed)

\* the same content was passed twice and counted twice, another word of the
\* specification was never seen
C5_Witness ==
    /\ pc = "ready"
    /\ track
    /\ case_sensitive
    /\ Len(words_dict) = 2
    /\ fed = [c \in { <<"A">> } |-> 2]
    /\ GetDefault(_word_count_dict, <<"A">>) = 2
    /\ \E i \in DOMAIN words_dict : ~HasKey(_word_count_dict, words_dict[i][1])

(* C6. reset puts the instance, from any state, into the state __init__    *)
(* leaves a new instance of the same configuration in, so that what        *)
(* follows a reset is what follows construction; on a fresh instance it    *)
(* changes nothing.                                                        *)
C6_ResetIsFresh ==
    [][ (pc = "ready" /\ Calls("reset"))
        => /\ Instance' = FreshInstance
           /\ Config' = Config
           /\ Instance = FreshInstance => Instance' = Instance ]_vars

\* reset has run
C6_Witness ==
    /\ pc = "ready"
    /\ ret.op = "reset"
    /\ Instance = FreshInstance

(* C8. Construction fails at once with a ValueError when the watch         *)
(* specification is empty or holds a threshold <= 0, the error naming the  *)
(* first such word in specification order and its value; any other         *)
(* specification constructs, with no counts and the latch (false, None).   *)
FirstBad(wd) ==
    CHOOSE i \in DOMAIN wd :
        wd[i][2] <= 0 /\ \A j \in 1 .. (i - 1) : wd[j][2] > 0

C8_Construction ==
    [][ pc = "start"
        => IF words_dict = <<>>
           THEN /\ pc' = "failed"
                /\ ret'.kind = "ValueError"
                /\ ret'.value = EmptyError
           ELSE IF \E i \in DOMAIN words_dict : words_dict[i][2] <= 0
           THEN /\ pc' = "failed"
                /\ ret'.kind = "ValueError"
                /\ ret'.value = ThresholdError(words_dict[FirstBad(words_dict)][1],
                                               words_dict[FirstBad(words_dict)][2])
           ELSE /\ pc' = "ready"
                /\ ret'.kind = "return"
                /\ _terminated' = FALSE
                /\ _termination_reason' = None
                /\ \A w \in Words : GetDefault(_word_count_dict', w) = 0 ]_vars

\* a specification with two bad thresholds was refused
C8_Witness ==
    /\ pc = "failed"
    /\ Len(words_dict) = 2
    /\ words_dict[1][2] = 0
    /\ words_dict[2][2] < 0
    /\ ret.value = ThresholdError(words_dict[1][1], 0)

(* C9. A mode other than ANY and ALL does not stop construction; every     *)
(* is_terminated call then raises the unsupported-mode ValueError and the  *)
(* instance never becomes terminated.                                      *)
C9_UnsupportedMode ==
    [][ mode \notin { "ANY", "ALL" }
        => /\ (pc = "start" /\ words_dict # <<>>
                 /\ \A i \in DOMAIN words_dict : words_dict[i][2] > 0)
               => pc' = "ready"
           /\ (pc = "ready" /\ Calls("is_terminated"))
               => /\ ret'.kind = "ValueError"
                  /\ ret'.value = UnsupportedError(mode)
           /\ pc = "ready" => ~_terminated /\ ~_terminated' ]_vars

\* a call raised although the counters meet every threshold
C9_Witness ==
    /\ pc = "ready"
    /\ mode \notin { "ANY", "ALL" }
    /\ ret.op = "is_terminated"
    /\ ret.kind = "ValueError"
    /\ AllCondition(_word_count_dict)
    /\ ~_terminated

(* C10. Case sensitivity: a message counts for a watched word, with        *)
(* case_sensitive = false, when the word occurs in the content up to the   *)
(* case of the letters, and with case_sensitive = true only when it        *)
(* occurs there in identical case.                                         *)
C10_CaseSensitivity ==
    [][ (pc = "ready" /\ track /\ ~_terminated /\ Calls("is_terminated")
           /\ BagCardinality(fed') = BagCardinality(fed) + 1)
        => \A c \in Contents :
               FedNow(c) = 1
                   => \A i \in DOMAIN words_dict :
                          (GetDefault(_word_count_dict', words_dict[i][1])
                               > GetDefault(_word_count_dict, words_dict[i][1]))
                          <=> Matches(words_dict[i][1], c) ]_vars

\* the word a is watched and the one message fed is A: counted when case is
\* ignored
C10_Witness ==
    /\ pc = "ready"
    /\ track
    /\ ~case_sensitive
    /\ fed = SetToBag({ <<"A">> })
    /\ GetDefault(_word_count_dict, <<"a">>) = 1

\* the same under case_sensitive = true: not counted
C10_WitnessSensitive ==
    /\ pc = "ready"
    /\ track
    /\ case_sensitive
    /\ HasKey(words_dict, <<"a">>)
    /\ fed = SetToBag({ <<"A">> })
    /\ GetDefault(_word_count_dict, <<"a">>) = 0

(* C11. An is_terminated call with no messages on a not yet terminated     *)
(* instance of mode ANY or ALL passes through: it returns (false, None)    *)
(* and leaves the counters and the latch as they were.                     *)
C11_EmptyBatch ==
    [][ (pc = "ready" /\ track /\ mode \in { "ANY", "ALL" } /\ ~_terminated
           /\ Calls("is_terminated") /\ fed' = fed)
        => /\ ret'.kind = "return"
           /\ ret'.value = <<FALSE, None>>
           /\ Instance' = Instance ]_vars

\* only empty batches were passed since construction or reset, and the
\* last call returned false
C11_Witness ==
    /\ pc = "ready"
    /\ track
    /\ mode \in { "ANY", "ALL" }
    /\ fed = EmptyBag
    /\ ReturnedTerminated(FALSE)
    /\ ret.value[2] = None

(* C12. The reason is None exactly while terminated is false: a call that  *)
(* returns false returns the reason None, a call that returns true a       *)
(* reason string that is not empty.                                        *)
C12_ReasonIffTerminated ==
    pc = "ready"
        => /\ _terminated <=> _termination_reason # None
           /\ _terminated => Len(_termination_reason[1]) > 0
           /\ (ret.op = "is_terminated" /\ ret.kind = "return")
               => /\ ret.value = <<_terminated, _termination_reason>>
                  /\ ret.value[1] <=> ret.value[2] # None

\* a call has returned true with its reason
C12_Witness ==
    /\ pc = "ready"
    /\ ReturnedTerminated(TRUE)
    /\ ret.value[2] # None
    /\ Len(ret.value[2][1]) > 0
    /\ ret.value[2] = _termination_reason

(* C14. For mode ANY or ALL, whatever calls were made, terminated is true  *)
(* exactly when the running counters meet the mode's aggregation           *)
(* condition; no active state holds counters that meet it.                 *)
C14_LatchIffCondition ==
    (pc = "ready" /\ mode \in { "ANY", "ALL" })
        => (_terminated <=> AggregationCondition(_word_count_dict))

\* an active instance of mode ALL, one of its two words at its threshold
C14_Witness ==
    /\ pc = "ready"
    /\ mode = "ALL"
    /\ ~_terminated
    /\ AnyCondition(_word_count_dict)
    /\ ~AllCondition(_word_count_dict)

(* C13. The reason of a latched instance holds one line for every watched  *)
(* word whose counter has reached its threshold when the call latched,     *)
(* and no other line; the line gives the word, its counter at that moment  *)
(* (which may exceed the threshold) and its threshold; in ALL mode every   *)
(* watched word has its line.                                              *)
RECURSIVE SplitLines(_)
\* the lines of a text
SplitLines(text) ==
    IF \A k \in DOMAIN text : text[k] # "\n" THEN <<text>>
    ELSE LET k == CHOOSE j \in DOMAIN text :
                      text[j] = "\n" /\ \A h \in 1 .. (j - 1) : text[h] # "\n"
         IN  <<SubSeq(text, 1, k - 1)>>
                 \o SplitLines(SubSeq(text, k + 1, Len(text)))

\* the line expected for the i-th watched word
Entry(i) ==
    <<"Word ", Tick>> \o words_dict[i][1] \o <<Tick, " appears ">>
        \o str(GetDefault(_word_count_dict, words_dict[i][1]))
        \o <<" times in response which has reached termination threshold ">>
        \o str(words_dict[i][2]) \o <<".">>

ReachedWords == { i \in DOMAIN words_dict : Reaches(_word_count_dict, i) }

C13_ReasonLines ==
    (pc = "ready" /\ _terminated /\ mode \in { "ANY", "ALL" })
        => LET lines == SplitLines(_termination_reason[1])
           IN  /\ Len(lines) = Cardinality(ReachedWords)
               /\ { lines[k] : k \in DOMAIN lines }
                      = { Entry(i) : i \in ReachedWords }
               /\ mode = "ALL" => ReachedWords = DOMAIN words_dict

\* an ANY instance latched by a call that brought both of its words to
\* their thresholds, one of them beyond
C13_Witness ==
    /\ pc = "ready"
    /\ mode = "ANY"
    /\ _terminated
    /\ ret.op = "is_terminated"
    /\ ret.at = 88
    /\ Len(words_dict) = 2
    /\ AllCondition(_word_count_dict)
    /\ \E i \in DOMAIN words_dict :
           GetDefault(_word_count_dict, words_dict[i][1]) > words_dict[i][2]

(* C16. A call that fails with the unsupported-mode error keeps what it    *)
(* counted: the matches of its batch are in the running counters when the  *)
(* error is raised, the latch stays (false, None), and further failing     *)
(* calls add to the same counters.                                         *)
C16_NoRollBack ==
    [][ (pc = "ready" /\ track /\ mode \notin { "ANY", "ALL" }
           /\ Calls("is_terminated"))
        => /\ ret'.kind = "ValueError"
           /\ ret'.at = 87
           /\ \A i \in DOMAIN words_dict :
                  GetDefault(_word_count_dict', words_dict[i][1])
                      = GetDefault(_word_count_dict, words_dict[i][1])
                          + SumOver(Contents, words_dict[i][1],
                                    [c \in Contents |-> FedNow(c)])
           /\ _terminated' = FALSE
           /\ _termination_reason' = None ]_vars

\* failing calls have counted a word more often than one batch has messages
C16_Witness ==
    /\ pc = "ready"
    /\ track
    /\ mode \notin { "ANY", "ALL" }
    /\ ret.op = "is_terminated"
    /\ ret.kind = "ValueError"
    /\ \E i \in DOMAIN _word_count_dict : _word_count_dict[i][2] > MaxBatch
    /\ ~_terminated
    /\ _termination_reason = None

(* C17. Between two resets no running counter decreases, and one call      *)
(* raises a counter by at most the number of messages of its batch; the    *)
(* counter dict holds watched words only, each once, so the number of      *)
(* reached words never exceeds the number of watched words and the test    *)
(* num_reached >= len(words_dict) is the test for equality.                *)
C17_CounterFrame ==
    [][ (pc = "ready" /\ track)
        => /\ ~Calls("reset")
               => \A w \in Words : GetDefault(_word_count_dict', w)
                                       >= GetDefault(_word_count_dict, w)
           /\ Calls("is_terminated")
               => \A w \in Words :
                      GetDefault(_word_count_dict', w)
                          - GetDefault(_word_count_dict, w)
                          <= BagCardinality(fed') - BagCardinality(fed)
           /\ \A k \in DOMAIN _word_count_dict' :
                  /\ HasKey(words_dict, _word_count_dict'[k][1])
                  /\ \A h \in DOMAIN _word_count_dict' :
                         _word_count_dict'[h][1] = _word_count_dict'[k][1]
                             => h = k
           /\ LET n == Evaluate(_word_count_dict', words_dict).num_reached
              IN  /\ n <= Len(words_dict)
                  /\ AllMet(n, words_dict) <=> n = Len(words_dict) ]_vars

\* two messages were fed, both counted for one watched word, and another
\* watched word is not in the counter dict
C17_Witness ==
    /\ pc = "ready"
    /\ track
    /\ BagCardinality(fed) = 2
    /\ Len(words_dict) = 2
    /\ Len(_word_count_dict) = 1
    /\ _word_count_dict[1][2] = 2

(* C15 *)
RECURSIVE Orderings(_)
\* the message sequences that hold the contents of the bag B
Orderings(B) ==
    IF B = EmptyBag THEN { <<>> }
    ELSE UNION { { <<Message(c)>> \o rest :
                     rest \in Orderings(B (-) SetToBag({c})) } :
                 c \in BagToSet(B) }

\* the flag a fresh instance of the same configuration returns from one
\* is_terminated call on messages
OneCallFlag(messages) ==
    LET ev == Evaluate(ScanWords(<<>>, Keys(words_dict), messages,
                                 case_sensitive), words_dict)
    IN  CASE mode = "ANY" -> AnyMet(ev.num_reached)
          [] mode = "ALL" -> AllMet(ev.num_reached, words_dict)
          [] OTHER -> FALSE

\* C15: in mode ANY or ALL, after any number of consecutive is_terminated
\* calls on a fresh (or reset) instance, the terminated flag is the flag one
\* call on a fresh instance returns for the concatenation of the batches
\* (here: for every sequence of the same messages)
C15_SplitInvariance ==
    (pc = "ready" /\ hist.on /\ mode \in {"ANY", "ALL"})
        => \A messages \in Orderings(hist.passed) :
               _terminated = OneCallFlag(messages)

\* three messages were fed in two or more calls, the last of which latched
\* in mode ALL on two watched words, one of them with threshold 2
C15_Witness ==
    /\ pc = "ready" /\ hist.on /\ mode = "ALL"
    /\ hist.calls >= 2
    /\ BagCardinality(hist.passed) = 3
    /\ _terminated /\ ret.at = 88
    /\ Len(words_dict) = 2
    /\ \E i \in DOMAIN words_dict : words_dict[i][2] = 2

(* C18 *)
\* C18: in mode ANY or ALL, with no reset in between, once every call made
\* held each watched word in some message and as many calls were made as
\* the largest threshold, the instance is terminated; in mode ANY, once one
\* watched word was held by every call and as many calls were made as its
\* threshold, the instance is terminated
C18_TerminatesWithin ==
    (pc = "ready" /\ hist.on /\ mode \in {"ANY", "ALL"})
        => /\ ( /\ hist.always = DOMAIN words_dict
                /\ \A i \in DOMAIN words_dict : hist.calls >= words_dict[i][2] )
              => _terminated
           /\ mode = "ANY"
              => \A i \in hist.always :
                     hist.calls >= words_dict[i][2] => _terminated

\* in mode ALL with thresholds 1 and 2, the second call in which both
\* watched words appeared latched the termination
C18_Witness ==
    /\ pc = "ready" /\ hist.on /\ mode = "ALL"
    /\ Len(words_dict) = 2
    /\ { words_dict[i][2] : i \in DOMAIN words_dict } = {1, 2}
    /\ hist.calls = 2
    /\ hist.always = DOMAIN words_dict
    /\ _terminated /\ ret.at = 88

====
